---- MODULE Spec2Model ----
(***************************************************************************)
(* The wavetable VCO firmware of wavetables-attiny-finetune.ino: the       *)
(* control loop (loop), one step per statement, and the timer interrupt    *)
(* (ISR(TIMER0_COMPA_vect)), which may run between any two steps of the    *)
(* loop.  The ATtiny is an 8-bit core: a 16-bit volatile store is two byte *)
(* stores, and the interrupt may fall between them.                        *)
(***************************************************************************)
EXTENDS Integers, Sequences, FiniteSets

VARIABLES
    syncPhaseAcc,       \* volatile uint16_t: the phase accumulator
    syncPhaseInc,       \* volatile uint16_t: the published phase increment
    baseFreq,           \* volatile uint16_t: mapFreq of the CV reading
    finetune,           \* volatile uint16_t: -64 + (reading >> 3), as uint16_t
    current_wavetable,  \* volatile uint8_t
    phase_offset,       \* volatile uint8_t, never written after startup
    range_high,         \* volatile uint8_t: 0 audio range, 1 LFO range
    acc,                \* uint16_t: running sum of the smoothing buffer
    buffered_vals,      \* uint16_t[BUFF_LENGTH]
    buff_step,          \* uint16_t: write index into buffered_vals
    OCR1A,              \* the PWM duty register: the output
    pc,                 \* the statement of loop() to execute next
    env,                \* the readings the inputs can present during this run
    ticksLeft,          \* timer ticks still to come in this run
    hist,               \* outputs of the latest ticks that read one (inc, range, wavetable)
    obs,                \* what the latest tick read and computed
    samples,            \* the latest values returned by mapOsc (at most BUFF_LENGTH)
    npass,              \* control passes that stored a sample, modulo BUFF_LENGTH
    run                 \* length of the run of equal values ending samples, capped

vars == <<syncPhaseAcc, syncPhaseInc, baseFreq, finetune, current_wavetable,
          phase_offset, range_high, acc, buffered_vals, buff_step, OCR1A, pc,
          env, ticksLeft, hist, obs, samples, npass, run>>

----------------------------------------------------------------------------
(* Program constants *)

WAVETABLE_SINE == 0
WAVETABLE_TRIANGLE == 1
WAVETABLE_SAW == 2
WAVETABLE_SQUARE == 3
WAVETABLE_PULSE == 4
WAVETABLE_NOISE == 5
BUFF_LENGTH == 4
BUFF_SHIFT == 2

(* Bounds of the model *)

MaxTicks == 70      \* ticks of a run whose inputs are held
MaxRaceTicks == 3   \* ticks of a run whose inputs vary
MaxRun == 8         \* cap of the run-length counter

Word == 65536       \* uint16_t arithmetic is modulo Word
Byte == 256         \* uint8_t arithmetic is modulo Byte

RECURSIVE Pow2(_)
Pow2(n) == IF n = 0 THEN 1 ELSE 2 * Pow2(n - 1)

Shr(x, n) == x \div Pow2(n)

Clamp(x, lo, hi) == IF x < lo THEN lo ELSE IF x > hi THEN hi ELSE x

----------------------------------------------------------------------------
(* wavetables.h: the tables and the two mapping functions.  The file is    *)
(* not among the sources; these follow the contracts of the specification. *)

\* FrequencyMapper: monotone, one octave per 205 steps of the reading.
mapFreq(raw) ==
    LET r == Clamp(raw, 0, 1023)
        base == 1024 * Pow2(r \div 205)
    IN  (base + (base * (r % 205)) \div 205) % Word

\* WaveformSelector: six contiguous bands, in the order of the waveform ids.
mapOsc(raw) == (Clamp(raw, 0, 1023) * 6) \div 1024

sine(i) ==
    IF i < 128 THEN 128 + (i * (128 - i) * 127) \div 4096
    ELSE 128 - ((i - 128) * (256 - i) * 127) \div 4096

triangle(i) == IF i < 128 THEN 2 * i ELSE 511 - 2 * i

pulse(i) == IF i < 64 THEN 255 ELSE 0

noise(i) == (i * 167 + (i * i) \div 7 + 13) % Byte

----------------------------------------------------------------------------
(* The interrupt service routine *)

\* mutants of EffInc: the LFO shift one bit short; the sense of the switch inverted
EffInc_Shift3(inc, rng) == IF rng = 0 THEN Shr(inc, 1) ELSE Shr(inc, 3)
EffInc_RangeInverted(inc, rng) == IF rng = 0 THEN Shr(inc, 4) ELSE Shr(inc, 1)

\* line 152: the per-tick advance of the accumulator
EffInc(inc, rng) == IF rng = 0 THEN Shr(inc, 1) ELSE Shr(inc, 4)

\* mutant of NextAcc: an accumulator wider than 16 bits
NextAcc_NoWrap(a, inc, rng) == a + EffInc(inc, rng)

\* line 152: syncPhaseAcc += ..., in uint16_t
NextAcc(a, inc, rng) == (a + EffInc(inc, rng)) % Word

\* mutant of Step: the low byte of the accumulator instead of the high byte
Step_LowByte(a) == a % Byte

\* line 153: step = syncPhaseAcc >> 8
Step(a) == Shr(a, 8) % Byte

\* mutant of PhasedStep: a fixed quarter-cycle offset
PhasedStep_Quadrature(step, off) == (step + off + 64) % Byte

\* line 155: phased_step = step + phase_offset, in uint8_t
PhasedStep(step, off) == (step + off) % Byte

\* mutant of SawVal: a falling ramp
SawVal_Falling(step) == 255 - step

\* line 165
SawVal(step) == step

\* mutant of SquareVal: the comparison off by one
SquareVal_OffByOne(step) == IF step <= 128 THEN 0 ELSE 255

\* line 168
SquareVal(step) == IF step < 128 THEN 0 ELSE 255

\* lines 173-174: the second read overwrites the first; the shift is in uint8_t
NoiseVal(step, phased) == (noise(phased) * 2) % Byte

\* mutant of WaveVal: only id 5 is noise, any other unknown id is silent
WaveVal_NoiseOnlyFive(wt, step, phased) ==
    CASE wt = WAVETABLE_SINE -> sine(step)
      [] wt = WAVETABLE_TRIANGLE -> triangle(step)
      [] wt = WAVETABLE_SAW -> SawVal(step)
      [] wt = WAVETABLE_SQUARE -> SquareVal(step)
      [] wt = WAVETABLE_PULSE -> pulse(step)
      [] wt = WAVETABLE_NOISE -> NoiseVal(step, phased)
      [] OTHER -> 0

\* lines 157-176: the switch on current_wavetable
WaveVal(wt, step, phased) ==
    CASE wt = WAVETABLE_SINE -> sine(step)
      [] wt = WAVETABLE_TRIANGLE -> triangle(step)
      [] wt = WAVETABLE_SAW -> SawVal(step)
      [] wt = WAVETABLE_SQUARE -> SquareVal(step)
      [] wt = WAVETABLE_PULSE -> pulse(step)
      [] OTHER -> NoiseVal(step, phased)

SameCfg == /\ obs.inc = syncPhaseInc
           /\ obs.range = range_high
           /\ obs.wt = current_wavetable

\* mutant of Tick: the table index is taken before the accumulator advances
Tick_StepBeforeAdvance ==
    /\ ticksLeft > 0
    /\ LET a == NextAcc(syncPhaseAcc, syncPhaseInc, range_high)
           step == Step(syncPhaseAcc)
           phased == PhasedStep(step, phase_offset)
           val == WaveVal(current_wavetable, step, phased)
       IN  /\ syncPhaseAcc' = a
           /\ OCR1A' = val
           /\ obs' = [inc |-> syncPhaseInc, range |-> range_high,
                      wt |-> current_wavetable, accBefore |-> syncPhaseAcc,
                      step |-> step, phased |-> phased, val |-> val,
                      pinc |-> IF hist = <<>> THEN -1 ELSE obs.inc,
                      prange |-> IF hist = <<>> THEN -1 ELSE obs.range]
           /\ hist' = IF SameCfg THEN Append(hist, val) ELSE <<val>>
    /\ ticksLeft' = ticksLeft - 1
    /\ UNCHANGED <<syncPhaseInc, baseFreq, finetune, current_wavetable,
                   phase_offset, range_high, acc, buffered_vals, buff_step,
                   pc, env, samples, npass, run>>

\* lines 149-181: one timer interrupt
Tick ==
    /\ ticksLeft > 0
    /\ LET a == NextAcc(syncPhaseAcc, syncPhaseInc, range_high)
           step == Step(a)
           phased == PhasedStep(step, phase_offset)
           val == WaveVal(current_wavetable, step, phased)
       IN  /\ syncPhaseAcc' = a
           /\ OCR1A' = val
           /\ obs' = [inc |-> syncPhaseInc, range |-> range_high,
                      wt |-> current_wavetable, accBefore |-> syncPhaseAcc,
                      step |-> step, phased |-> phased, val |-> val,
                      pinc |-> IF hist = <<>> THEN -1 ELSE obs.inc,
                      prange |-> IF hist = <<>> THEN -1 ELSE obs.range]
           /\ hist' = IF SameCfg THEN Append(hist, val) ELSE <<val>>
    /\ ticksLeft' = ticksLeft - 1
    /\ UNCHANGED <<syncPhaseInc, baseFreq, finetune, current_wavetable,
                   phase_offset, range_high, acc, buffered_vals, buff_step,
                   pc, env, samples, npass, run>>

----------------------------------------------------------------------------
(* The control loop *)

\* mutants of FineTune: a shift by 2 instead of 3; the centring left out
FineTune_Shift2(r) == (Word - 64 + Shr(r, 2)) % Word
FineTune_NotCentred(r) == Shr(r, 3) % Word

\* line 127: -64 + (reading >> 3), stored in a uint16_t
FineTune(r) == (Word - 64 + Shr(r, 3)) % Word

\* lines 119-121: the sum of the buffer, and its average by shift
RECURSIVE SumTo(_, _)
SumTo(vals, n) == IF n = 0 THEN 0 ELSE (SumTo(vals, n - 1) + vals[n - 1]) % Word

\* mutants of SmoothedValue: a rounding average; a loop that stops one entry short
SmoothedValue_Rounded(vals) == Shr((SumTo(vals, BUFF_LENGTH) + 2) % Word, BUFF_SHIFT) % Byte
SmoothedValue_SumThree(vals) == Shr(SumTo(vals, BUFF_LENGTH - 1), BUFF_SHIFT) % Byte

\* mutant of SmoothedValue: a shift by one bit less
SmoothedValue_ShiftOne(vals) == Shr(SumTo(vals, BUFF_LENGTH), BUFF_SHIFT - 1) % Byte

\* lines 119-121
SmoothedValue(vals) == Shr(SumTo(vals, BUFF_LENGTH), BUFF_SHIFT) % Byte

\* a 16-bit value with one of its bytes replaced by that byte of another
WithHigh(old, new) == (new \div Byte) * Byte + (old % Byte)
WithLow(old, new) == (old \div Byte) * Byte + (new % Byte)

ghost == <<ticksLeft, hist, obs>>

\* line 103
ReadCV ==
    /\ pc = "L103"
    /\ \E cv \in env.cv : baseFreq' = mapFreq(cv)
    /\ pc' = "L117"
    /\ UNCHANGED <<syncPhaseAcc, syncPhaseInc, finetune, current_wavetable,
                   phase_offset, range_high, acc, buffered_vals, buff_step,
                   OCR1A, env, samples, npass, run>>
    /\ UNCHANGED ghost

\* line 117
StoreSample ==
    /\ pc = "L117"
    /\ \E w \in env.wave :
          LET v == mapOsc(w) IN
          /\ buffered_vals' = [buffered_vals EXCEPT ![buff_step] = v]
          /\ samples' = IF Len(samples) < BUFF_LENGTH THEN Append(samples, v)
                        ELSE Append(Tail(samples), v)
          /\ run' = IF samples # <<>> /\ samples[Len(samples)] = v
                    THEN (IF run < MaxRun THEN run + 1 ELSE run)
                    ELSE 1
    /\ buff_step' = (buff_step + 1) % Word
    /\ npass' = (npass + 1) % BUFF_LENGTH
    /\ pc' = "L118"
    /\ UNCHANGED <<syncPhaseAcc, syncPhaseInc, baseFreq, finetune,
                   current_wavetable, phase_offset, range_high, acc, OCR1A, env>>
    /\ UNCHANGED ghost

\* mutant of Smooth: the clearing of acc (line 122) clears the phase
\* accumulator instead
Smooth_ClearsPhaseAcc ==
    /\ pc = "L118"
    /\ IF buff_step = BUFF_LENGTH
       THEN /\ current_wavetable' = SmoothedValue(buffered_vals)
            /\ syncPhaseAcc' = 0
            /\ buff_step' = 0
       ELSE UNCHANGED <<current_wavetable, syncPhaseAcc, buff_step>>
    /\ pc' = "L127"
    /\ UNCHANGED <<acc, syncPhaseInc, baseFreq, finetune,
                   phase_offset, range_high, buffered_vals, OCR1A, env,
                   samples, npass, run>>
    /\ UNCHANGED ghost

\* mutant of Smooth: the comparison of line 118 off by one
Smooth_OffByOne ==
    /\ pc = "L118"
    /\ IF buff_step > BUFF_LENGTH
       THEN /\ current_wavetable' = SmoothedValue(buffered_vals)
            /\ acc' = 0
            /\ buff_step' = 0
       ELSE UNCHANGED <<current_wavetable, acc, buff_step>>
    /\ pc' = "L127"
    /\ UNCHANGED <<syncPhaseAcc, syncPhaseInc, baseFreq, finetune,
                   phase_offset, range_high, buffered_vals, OCR1A, env,
                   samples, npass, run>>
    /\ UNCHANGED ghost

\* lines 118-124
Smooth ==
    /\ pc = "L118"
    /\ IF buff_step = BUFF_LENGTH
       THEN /\ current_wavetable' = SmoothedValue(buffered_vals)
            /\ acc' = 0
            /\ buff_step' = 0
       ELSE UNCHANGED <<current_wavetable, acc, buff_step>>
    /\ pc' = "L127"
    /\ UNCHANGED <<syncPhaseAcc, syncPhaseInc, baseFreq, finetune,
                   phase_offset, range_high, buffered_vals, OCR1A, env,
                   samples, npass, run>>
    /\ UNCHANGED ghost

\* line 127
ReadFine ==
    /\ pc = "L127"
    /\ \E r \in env.ft : finetune' = FineTune(r)
    /\ pc' = "L130"
    /\ UNCHANGED <<syncPhaseAcc, syncPhaseInc, baseFreq, current_wavetable,
                   phase_offset, range_high, acc, buffered_vals, buff_step,
                   OCR1A, env, samples, npass, run>>
    /\ UNCHANGED ghost

\* line 130: the first byte store of syncPhaseInc = baseFreq + finetune
PublishFirst ==
    /\ pc = "L130"
    /\ LET sum == (baseFreq + finetune) % Word
       IN  syncPhaseInc' = IF env.hiFirst THEN WithHigh(syncPhaseInc, sum)
                           ELSE WithLow(syncPhaseInc, sum)
    /\ pc' = "L130b"
    /\ UNCHANGED <<syncPhaseAcc, baseFreq, finetune, current_wavetable,
                   phase_offset, range_high, acc, buffered_vals, buff_step,
                   OCR1A, env, samples, npass, run>>
    /\ UNCHANGED ghost

\* line 130: the second byte store
PublishSecond ==
    /\ pc = "L130b"
    /\ LET sum == (baseFreq + finetune) % Word
       IN  syncPhaseInc' = IF env.hiFirst THEN WithLow(syncPhaseInc, sum)
                           ELSE WithHigh(syncPhaseInc, sum)
    /\ pc' = "L133"
    /\ UNCHANGED <<syncPhaseAcc, baseFreq, finetune, current_wavetable,
                   phase_offset, range_high, acc, buffered_vals, buff_step,
                   OCR1A, env, samples, npass, run>>
    /\ UNCHANGED ghost

\* line 133
ReadRange ==
    /\ pc = "L133"
    /\ \E p \in env.pin : range_high' = IF p = 1 THEN 1 ELSE 0
    /\ pc' = "L103"
    /\ UNCHANGED <<syncPhaseAcc, syncPhaseInc, baseFreq, finetune,
                   current_wavetable, phase_offset, acc, buffered_vals,
                   buff_step, OCR1A, env, samples, npass, run>>
    /\ UNCHANGED ghost

Loop == \/ ReadCV
        \/ StoreSample
        \/ Smooth
        \/ ReadFine
        \/ PublishFirst
        \/ PublishSecond
        \/ ReadRange

----------------------------------------------------------------------------
(* Startup and the specifications *)

Obs0(inc, rng, wt) ==
    [inc |-> inc, range |-> rng, wt |-> wt, accBefore |-> 0,
     step |-> 0, phased |-> 0, val |-> 128, pinc |-> -1, prange |-> -1]

\* the state after setup(): lines 53-56, 65 (zeroed globals) and 67-93 (audioOn)
InitProg(e) ==
    /\ syncPhaseAcc = 0
    /\ syncPhaseInc = 0
    /\ baseFreq = 0
    /\ finetune = 0
    /\ current_wavetable = 0
    /\ phase_offset = 0
    /\ range_high = 0
    /\ acc = 0
    /\ buffered_vals = [i \in 0..(BUFF_LENGTH - 1) |-> 0]
    /\ buff_step = 0
    /\ OCR1A = 128
    /\ pc = "L103"
    /\ env = e
    /\ ticksLeft = e.ticks
    /\ hist = <<>>
    /\ obs = Obs0(0, 0, 0)
    /\ samples = <<>>
    /\ npass = 0
    /\ run = 0

Next == Loop \/ Tick

Orders == {TRUE, FALSE}

\* the fine-tune pot moves by one step of its offset across a byte boundary
\* of the increment; everything else is held
PitchEnvs ==
    {[cv |-> {820}, ft |-> {504, 512}, wave |-> {600}, pin |-> {0},
      hiFirst |-> o, ticks |-> MaxRaceTicks] : o \in Orders}

InitPitch == \E e \in PitchEnvs : InitProg(e)
SpecPitch == InitPitch /\ [][Next]_vars

\* the waveform pot moves among three bands; everything else is held
WaveEnvs ==
    {[cv |-> {820}, ft |-> {512}, wave |-> {0, 400, 1023}, pin |-> {0},
      hiFirst |-> o, ticks |-> MaxRaceTicks] : o \in Orders}

InitWave == \E e \in WaveEnvs : InitProg(e)
SpecWave == InitWave /\ [][Next]_vars

\* the range switch moves; everything else is held
RangeEnvs ==
    {[cv |-> {820}, ft |-> {r}, wave |-> {400}, pin |-> {0, 1},
      hiFirst |-> o, ticks |-> MaxRaceTicks] : r \in {504, 512}, o \in Orders}

InitRange == \E e \in RangeEnvs : InitProg(e)
SpecRange == InitRange /\ [][Next]_vars

\* The program some passes after its inputs came to rest at one reading each:
\* the buffer holds four copies of the select value and every published
\* variable holds what a pass computes from the held readings.  The
\* accumulator is wherever the earlier ticks left it.
Steady(e, a) ==
    LET cv == CHOOSE c \in e.cv : TRUE
        ft == CHOOSE r \in e.ft : TRUE
        v  == mapOsc(CHOOSE w \in e.wave : TRUE)
        p  == CHOOSE q \in e.pin : TRUE
        held == [i \in 0..(BUFF_LENGTH - 1) |-> v]
        inc == (mapFreq(cv) + FineTune(ft)) % Word
    IN  /\ syncPhaseAcc = a
        /\ syncPhaseInc = inc
        /\ baseFreq = mapFreq(cv)
        /\ finetune = FineTune(ft)
        /\ current_wavetable = SmoothedValue(held)
        /\ phase_offset = 0
        /\ range_high = (IF p = 1 THEN 1 ELSE 0)
        /\ acc = 0
        /\ buffered_vals = held
        /\ buff_step = 0
        /\ OCR1A = 128
        /\ pc = "L103"
        /\ env = e
        /\ ticksLeft = e.ticks
        /\ hist = <<>>
        /\ obs = Obs0(inc, IF p = 1 THEN 1 ELSE 0, SmoothedValue(held))
        /\ samples = <<v, v, v, v>>
        /\ npass = 0
        /\ run = MaxRun

\* every input held at one reading
HoldEnvs ==
    {[cv |-> {c}, ft |-> {512}, wave |-> {600}, pin |-> {p}, hiFirst |-> o,
      ticks |-> MaxTicks] :
        c \in {615, 820, 900, 1023}, p \in {0, 1}, o \in Orders}

AccSamples == {0, 100, 32767}

InitHold == \E e \in HoldEnvs : \E a \in AccSamples : Steady(e, a)
SpecHold == InitHold /\ [][Next]_vars

\* The interrupt alone, as a function of the shared variables it reads:
\* the increment, the range and the wavetable id over samples of their
\* types, the accumulator starting from 0, and no control pass in between.
IncSamples == {0, 1, 2, 15, 16, 31, 512, 4096, 8192, 16384, 22777, 32768,
               49152, 65535}
WtSamples == {0, 1, 2, 3, 4, 5, 6, 128, 255}

InitISR ==
    \E i \in IncSamples : \E r \in {0, 1} : \E w \in WtSamples :
        /\ syncPhaseAcc = 0
        /\ syncPhaseInc = i
        /\ baseFreq = i
        /\ finetune = 0
        /\ current_wavetable = w
        /\ phase_offset = 0
        /\ range_high = r
        /\ acc = 0
        /\ buffered_vals = [k \in 0..(BUFF_LENGTH - 1) |-> w]
        /\ buff_step = 0
        /\ OCR1A = 128
        /\ pc = "L103"
        /\ env = [cv |-> {0}, ft |-> {512}, wave |-> {0}, pin |-> {r},
                  hiFirst |-> TRUE, ticks |-> MaxTicks]
        /\ ticksLeft = MaxTicks
        /\ hist = <<>>
        /\ obs = Obs0(i, r, w)
        /\ samples = <<w, w, w, w>>
        /\ npass = 0
        /\ run = MaxRun

NextISR == Tick
SpecISR == InitISR /\ [][NextISR]_vars

\* total number of ticks so far in this run
NTicks == env.ticks - ticksLeft

\* Lines 127-130 alone, for the arithmetic of the fine tune and of the sum.
\* The state is that of the first pass at line 127.  mapFreq is not among the
\* sources, so baseFreq ranges over samples of its return type, uint16_t; the
\* fine-tune reading is held, so that env.ft names the reading a state used.
BaseSamples == {0, 1, 63, 64, 65, 1024, 16384, 32608, 65471, 65472, 65473, 65535}
FtSamples == {0, 7, 8, 256, 504, 511, 512, 515, 519, 520, 1016, 1023}

InitPublish ==
    \E b \in BaseSamples : \E r \in FtSamples : \E o \in Orders :
        LET v == mapOsc(0)
        IN  /\ syncPhaseAcc = 0
            /\ syncPhaseInc = 0
            /\ baseFreq = b
            /\ finetune = 0
            /\ current_wavetable = 0
            /\ phase_offset = 0
            /\ range_high = 0
            /\ acc = 0
            /\ buffered_vals = [i \in 0..(BUFF_LENGTH - 1) |->
                                   IF i = 0 THEN v ELSE 0]
            /\ buff_step = 1
            /\ OCR1A = 128
            /\ pc = "L127"
            /\ env = [cv |-> {}, ft |-> {r}, wave |-> {0}, pin |-> {0},
                      hiFirst |-> o, ticks |-> 0]
            /\ ticksLeft = 0
            /\ hist = <<>>
            /\ obs = Obs0(0, 0, 0)
            /\ samples = <<v>>
            /\ npass = 1
            /\ run = 1

NextPublish == ReadFine \/ PublishFirst \/ PublishSecond

SpecPublish == InitPublish /\ [][NextPublish]_vars

\* the fine-tune reading a state of SpecPublish was computed from
HeldFt == CHOOSE r \in env.ft : TRUE

----------------------------------------------------------------------------
(* The claims *)

\* what the latest tick added to the accumulator, modulo 65536
LastAdvance == (syncPhaseAcc + 65536 - obs.accBefore) % 65536

\* C1: starting from syncPhaseAcc = 0, after N ticks with no control update
\* the accumulator is (N * (I >> 1)) mod 65536 in the audio range and
\* (N * (I >> 4)) mod 65536 in the LFO range.  (SpecISR)
C1_AccAfterNTicks ==
    syncPhaseAcc =
        (NTicks * (IF range_high = 0 THEN syncPhaseInc \div 2
                   ELSE syncPhaseInc \div 16)) % 65536

\* C1 witness: in the LFO range the product has passed 65536, so the
\* accumulator has wrapped, and it is not back at 0.
C1_Witness ==
    /\ range_high = 1
    /\ NTicks * (syncPhaseInc \div 16) > 65536
    /\ syncPhaseAcc # 0

\* C2 as stated: the audio-range advance is exactly 8 times the LFO-range
\* advance for the same increment.  (SpecISR; violated)
C2_ExactlyEightTimes ==
    NTicks > 0 =>
        IF obs.range = 0 THEN LastAdvance = 8 * (obs.inc \div 16)
        ELSE obs.inc \div 2 = 8 * LastAdvance

\* C2 amended: the audio-range advance is 8 times the LFO-range advance plus
\* the three bits the LFO shift drops, (I >> 1) mod 8; the two are in the
\* ratio 8 exactly when I mod 16 < 2.  (SpecISR)
C2_EightTimesPlusDroppedBits ==
    NTicks > 0 =>
        LET audio == IF obs.range = 0 THEN LastAdvance ELSE obs.inc \div 2
            lfo   == IF obs.range = 1 THEN LastAdvance ELSE obs.inc \div 16
        IN  /\ audio - 8 * lfo = (obs.inc \div 2) % 8
            /\ (audio = 8 * lfo) <=> (obs.inc % 16 < 2)

\* C2 witness: an LFO tick whose increment has dropped bits.
C2_Witness ==
    /\ NTicks > 0
    /\ obs.range = 1
    /\ obs.inc % 16 >= 2
    /\ obs.inc \div 2 > 8 * LastAdvance

\* the values a complete control pass can publish from the readings of this
\* run, and the value before the first pass
Publishable ==
    {0} \cup {(mapFreq(c) + FineTune(r)) % Word : c \in env.cv, r \in env.ft}

\* C3 as stated: the increment a tick reads is a value some control pass
\* completely published, or the initial value.  (SpecPitch; violated)
C3_ConsistentSnapshot == NTicks > 0 => obs.inc \in Publishable

\* C4: while the square waveform is selected the output of a tick is 0 when
\* step, the high byte of the advanced accumulator, is in 0..127 and 255
\* when it is in 128..255.  (SpecISR)
C4_SquareOutput ==
    (NTicks > 0 /\ current_wavetable = 3) =>
        OCR1A = (IF (syncPhaseAcc \div 256) \in 0..127 THEN 0 ELSE 255)

\* C4 witness: a square tick at the first step of the high half.
C4_Witness ==
    /\ NTicks > 0
    /\ current_wavetable = 3
    /\ syncPhaseAcc \div 256 = 128
    /\ OCR1A = 255

\* the per-tick advance the latest tick's increment and range give
ObsAdvance == IF obs.range = 0 THEN obs.inc \div 2 ELSE obs.inc \div 16

\* C5 as stated: with saw selected and the increment and range fixed (and the
\* accumulator advancing at all), the output is step and consecutive outputs
\* count 0,1,2,...,255, restarting at 0 only when the accumulator wraps.
\* (SpecISR; violated)
C5_SawCountsByOne ==
    (current_wavetable = 2 /\ Len(hist) >= 2 /\ ObsAdvance > 0) =>
        LET cur == hist[Len(hist)]
            prev == hist[Len(hist) - 1]
        IN  /\ OCR1A = syncPhaseAcc \div 256
            /\ IF syncPhaseAcc < obs.accBefore
               THEN prev = 255 /\ cur = 0
               ELSE cur = prev + 1

\* C5 amended: the output is step; between two wraps consecutive outputs
\* rise by E >> 8 or (E >> 8) + 1, E being the per-tick advance, so they
\* never fall and rise strictly once E >= 256; the output falls only on a
\* tick at which the accumulator wraps; the outputs count by one when
\* E = 256.  (SpecISR)
C5_SawRamp ==
    (current_wavetable = 2 /\ NTicks > 0) =>
        /\ OCR1A = syncPhaseAcc \div 256
        /\ Len(hist) >= 2 =>
             LET cur == hist[Len(hist)]
                 prev == hist[Len(hist) - 1]
                 wrapped == syncPhaseAcc < obs.accBefore
             IN  /\ ~wrapped => cur - prev \in {ObsAdvance \div 256,
                                                ObsAdvance \div 256 + 1}
                 /\ wrapped => cur <= prev
                 /\ cur < prev => wrapped
                 /\ ObsAdvance = 256 => cur = (prev + 1) % 256

\* C5 witness: a saw tick at which the accumulator wraps and the output falls.
C5_Witness ==
    /\ current_wavetable = 2
    /\ Len(hist) >= 2
    /\ syncPhaseAcc < obs.accBefore
    /\ hist[Len(hist)] < hist[Len(hist) - 1]
    /\ OCR1A = hist[Len(hist)]

\* C6 as stated: with the inputs held and square selected, for every
\* non-zero per-tick advance E the outputs repeat every 65536 / E ticks
\* (the quotient taken as the whole number of ticks) and an output and the
\* one half a period later are opposite.  (SpecHold; violated)
C6_PeriodForEveryAdvance ==
    (obs.wt = 3 /\ ObsAdvance > 0) =>
        LET P == 65536 \div ObsAdvance
        IN  \A i \in 1..Len(hist) :
              /\ i + P <= Len(hist) => hist[i + P] = hist[i]
              /\ i + P \div 2 <= Len(hist) => hist[i + P \div 2] = 255 - hist[i]

\* C6 amended: the same for every non-zero per-tick advance E that divides
\* 65536 (a power of two): the outputs are 0 or 255, repeat every 65536 / E
\* ticks, and the output half a period after any tick is the opposite one,
\* so each period is 32768 / E ticks low and 32768 / E ticks high.
\* (SpecHold)
C6_PeriodForPowerOfTwoAdvance ==
    (obs.wt = 3 /\ ObsAdvance > 0 /\ 65536 % ObsAdvance = 0) =>
        LET P == 65536 \div ObsAdvance
        IN  \A i \in 1..Len(hist) :
              /\ hist[i] \in {0, 255}
              /\ i + P <= Len(hist) => hist[i + P] = hist[i]
              /\ i + P \div 2 <= Len(hist) => hist[i + P \div 2] = 255 - hist[i]

\* C6 witness: square ticks over more than one whole period of 16 ticks or
\* more, with the control loop rewriting the held values in between.
C6_Witness ==
    /\ obs.wt = 3
    /\ ObsAdvance > 0
    /\ 65536 % ObsAdvance = 0
    /\ 65536 \div ObsAdvance >= 16
    /\ Len(hist) > 65536 \div ObsAdvance
    /\ pc = "L133"

\* the sum of the latest BUFF_LENGTH values mapOsc returned
SumOfSamples == samples[1] + samples[2] + samples[3] + samples[4]

\* C7: at the fourth control pass of each group of four, and only then,
\* current_wavetable becomes floor(sum of the last 4 mapOsc values / 4), and
\* acc and buff_step are 0 afterwards; no other step changes
\* current_wavetable.  (SpecWave)
C7_AverageEveryFourthPass ==
    [][ LET wraps == pc = "L118" /\ pc' = "L127" /\ npass = 0
        IN  /\ wraps => /\ current_wavetable' = SumOfSamples \div 4
                        /\ acc' = 0
                        /\ buff_step' = 0
            /\ ~wraps => current_wavetable' = current_wavetable ]_vars

\* C7 witness: a fourth pass has just averaged four values whose sum is not
\* a multiple of 4.
C7_Witness ==
    /\ pc = "L127"
    /\ npass = 0
    /\ Len(samples) = 4
    /\ SumOfSamples % 4 # 0
    /\ current_wavetable = SumOfSamples \div 4
    /\ acc = 0
    /\ buff_step = 0

\* the latest value mapOsc returned
LastSample == samples[Len(samples)]

\* the averaging step of the pass that stored the latest sample has run
PassSmoothed == pc # "L118"

\* C8 as stated: once the select value has been v for the pass at which it
\* changed and 4 further passes, current_wavetable is v.  (SpecWave;
\* violated)
C8_LatencyFourPasses ==
    (PassSmoothed /\ run >= 5) => current_wavetable = LastSample

\* C8 amended: current_wavetable is v once a whole group of four passes has
\* read v, that is once the run of v is at least 4 plus the number of
\* samples stored since the last wrap; this is the case at the latest
\* after the pass at which the change arrived and 6 further passes.
\* (SpecWave)
C8_LatencySevenPasses ==
    (PassSmoothed /\ samples # <<>>) =>
        /\ run >= 4 + buff_step => current_wavetable = LastSample
        /\ run >= 7 => current_wavetable = LastSample

\* C8 witness: the seventh pass of a run of a non-zero v wraps the buffer:
\* the change arrived at ring position 1.
C8_Witness ==
    /\ pc = "L127"
    /\ run = 7
    /\ buff_step = 0
    /\ LastSample # 0
    /\ current_wavetable = LastSample

\* C9: a tick with current_wavetable outside 0..4 writes the doubled noise
\* entry at phasedStep = (step + phase_offset) mod 256, modulo 256; every
\* tick, whatever the id, writes an 8-bit output.  (SpecISR)
C9_NoiseFallback ==
    NTicks > 0 =>
        /\ OCR1A \in 0..255
        /\ OCR1A = obs.val
        /\ current_wavetable \notin 0..4 =>
             /\ obs.phased = (syncPhaseAcc \div 256 + phase_offset) % 256
             /\ OCR1A = (noise(obs.phased) * 2) % 256

\* C9 witness: an id that is no waveform's, at a noise entry whose doubling
\* overflows 8 bits.
C9_Witness ==
    /\ NTicks > 0
    /\ current_wavetable = 255
    /\ noise(obs.phased) >= 128
    /\ OCR1A = noise(obs.phased) * 2 - 256

\* C10 as stated: of two consecutive ticks that read the same increment and
\* different ranges, the one in the audio range advances the accumulator by
\* 8 times the advance of the one in the LFO range.  (SpecRange; violated)
C10_StepChangesEightfold ==
    (hist # <<>> /\ obs.prange \in {0, 1} /\ obs.prange # obs.range
                 /\ obs.pinc = obs.inc) =>
        LET before == IF obs.prange = 0 THEN obs.pinc \div 2
                      ELSE obs.pinc \div 16
        IN  IF obs.range = 1 THEN before = 8 * LastAdvance
            ELSE LastAdvance = 8 * before

\* C10 amended: a tick advances the accumulator by the step of the
\* range_high the control loop last wrote, modulo 65536, and nothing else
\* changes the accumulator: the write of range_high (line 133) leaves it as
\* it is.  Of two consecutive ticks that read the same increment and
\* different ranges, the audio-range advance is 8 times the LFO-range
\* advance plus the dropped bits, a value in 0..7.  (SpecRange)
C10_RangeChangeKeepsPhase ==
    [][ LET ticked == ticksLeft' # ticksLeft
            stepNow == IF range_high = 0 THEN syncPhaseInc \div 2
                       ELSE syncPhaseInc \div 16
            straddles == /\ hist # <<>>
                         /\ obs.range # range_high
                         /\ obs.inc = syncPhaseInc
            advBefore == (syncPhaseAcc + 65536 - obs.accBefore) % 65536
            advNow == (syncPhaseAcc' + 65536 - syncPhaseAcc) % 65536
        IN  /\ ticked => /\ syncPhaseAcc' = (syncPhaseAcc + stepNow) % 65536
                         /\ range_high' = range_high
            /\ (ticked /\ straddles) =>
                   IF range_high = 1 THEN advBefore - 8 * advNow \in 0..7
                   ELSE advNow - 8 * advBefore \in 0..7
            /\ ~ticked => syncPhaseAcc' = syncPhaseAcc
            /\ range_high' # range_high => pc = "L133" ]_vars

\* C10 witness: two consecutive ticks read the same non-zero increment and
\* different ranges, and the second continued from a non-zero accumulator.
C10_Witness ==
    /\ hist # <<>>
    /\ obs.prange \in {0, 1}
    /\ obs.prange # obs.range
    /\ obs.pinc = obs.inc
    /\ obs.inc > 0
    /\ obs.accBefore # 0
    /\ syncPhaseAcc = (obs.accBefore + ObsAdvance) % 65536
    /\ ObsAdvance # 0

\* C11: single-writer discipline.  A timer tick leaves syncPhaseInc, baseFreq,
\* finetune, current_wavetable, range_high, buffered_vals, buff_step and acc
\* as they are (it writes only syncPhaseAcc and the output register); a step
\* of the control loop leaves syncPhaseAcc, phase_offset and the output
\* register as they are.  (SpecPitch)
C11_SingleWriter ==
    [][ LET ticked == ticksLeft' # ticksLeft
            looped == pc' # pc
        IN  /\ ticked => /\ ~looped
                         /\ syncPhaseInc' = syncPhaseInc
                         /\ baseFreq' = baseFreq
                         /\ finetune' = finetune
                         /\ current_wavetable' = current_wavetable
                         /\ range_high' = range_high
                         /\ buffered_vals' = buffered_vals
                         /\ buff_step' = buff_step
                         /\ acc' = acc
                         /\ phase_offset' = phase_offset
            /\ looped => /\ ~ticked
                         /\ syncPhaseAcc' = syncPhaseAcc
                         /\ phase_offset' = phase_offset
                         /\ OCR1A' = OCR1A
            /\ (ticked \/ looped) ]_vars

\* C11 witness: a tick has moved the accumulator and the output, and the
\* control loop has since stored a sample, published an increment and is
\* about to average a full buffer, the tick's values still in place.
C11_Witness ==
    /\ NTicks > 0
    /\ syncPhaseAcc # 0
    /\ syncPhaseAcc = (obs.accBefore + ObsAdvance) % 65536
    /\ OCR1A = obs.val
    /\ OCR1A # 128
    /\ syncPhaseInc # 0
    /\ pc = "L118"
    /\ buff_step = BUFF_LENGTH

\* the two's-complement reading of a 16-bit value
Signed16(x) == IF x >= 32768 THEN x - 65536 ELSE x

\* C12: for a fine-tune reading r the control loop computes the signed
\* offset (r >> 3) - 64; it lies in -64..63 and it is 0 exactly for the
\* readings 512..519.  (SpecPublish)
C12_FineTuneOffset ==
    (pc \in {"L130", "L130b", "L133"}) =>
        LET r == HeldFt
            off == Signed16(finetune)
        IN  /\ off = (r \div 8) - 64
            /\ off >= -64
            /\ off <= 63
            /\ (off = 0) <=> (r >= 512 /\ r <= 519)

\* C12 witness: the last reading of the zero band has given the offset 0.
C12_Witness ==
    /\ pc = "L130"
    /\ HeldFt = 519
    /\ finetune = 0

\* C13 as stated: the increment a pass publishes is the integer sum of the
\* base increment and the signed fine-tune offset, so it is never further
\* than 64 from the base increment.  (SpecPublish; violated)
C13_SumWithoutWrap ==
    (pc = "L133") =>
        LET off == (HeldFt \div 8) - 64
        IN  /\ syncPhaseInc = baseFreq + off
            /\ syncPhaseInc - baseFreq <= 64
            /\ baseFreq - syncPhaseInc <= 64

\* C13 amended: the increment a pass publishes is the sum of the base
\* increment and the signed fine-tune offset modulo 65536; it is the integer
\* sum, and within 64 of the base increment, when the base increment is in
\* 64..65472.  (SpecPublish)
C13_SumModuloWord ==
    (pc = "L133") =>
        LET off == (HeldFt \div 8) - 64
        IN  /\ syncPhaseInc = (baseFreq + off + 65536) % 65536
            /\ (baseFreq >= 64 /\ baseFreq <= 65472) =>
                   /\ syncPhaseInc = baseFreq + off
                   /\ syncPhaseInc - baseFreq <= 64
                   /\ baseFreq - syncPhaseInc <= 64

\* C13 witness: a pass has published the sum of a base increment below 64
\* and a negative offset, which wrapped.
C13_Witness ==
    /\ pc = "L133"
    /\ baseFreq = 63
    /\ HeldFt = 0
    /\ syncPhaseInc = 65535

\* the table a table-driven waveform id selects
TableOf(wt, i) ==
    IF wt = 0 THEN sine(i) ELSE IF wt = 1 THEN triangle(i) ELSE pulse(i)

\* C14: with sine (0), triangle (1) or pulse (4) selected, the value a tick
\* leaves in the output register is table[current_wavetable][step], step
\* being the top 8 bits of the accumulator after the tick's advance; the
\* register holds the one value the tick wrote.  (SpecISR)
C14_TableLookup ==
    (NTicks > 0 /\ current_wavetable \in {0, 1, 4}) =>
        /\ syncPhaseAcc = (obs.accBefore + ObsAdvance) % 65536
        /\ OCR1A = TableOf(current_wavetable, syncPhaseAcc \div 256)
        /\ OCR1A = obs.val

\* C14 witness: a tick with triangle selected moved the index, and the
\* output is the table's entry at the new index, not at the old one.
C14_Witness ==
    /\ NTicks > 0
    /\ current_wavetable = 1
    /\ syncPhaseAcc \div 256 # obs.accBefore \div 256
    /\ OCR1A = triangle(syncPhaseAcc \div 256)
    /\ OCR1A # triangle(obs.accBefore \div 256)

\* C15: in every reachable state, those in which a tick can preempt the
\* control loop included, buff_step is in 0..4; it is in 0..3 at the start
\* of a pass and at the store of line 117, whose index it is, and it is 4
\* only between that store and the reset of the same pass.  (SpecPitch)
C15_BufferIndexInRange ==
    /\ buff_step >= 0
    /\ buff_step <= 4
    /\ (buff_step = 4) => (pc = "L118")
    /\ (pc \in {"L103", "L117"}) => (buff_step <= 3)
    /\ (pc = "L118") => (buff_step >= 1)
    /\ DOMAIN buffered_vals = 0..3

\* C15 witness: the fourth store has left buff_step at 4, ticks have run
\* and another tick can preempt the loop before the reset.
C15_Witness ==
    /\ buff_step = 4
    /\ pc = "L118"
    /\ NTicks > 0
    /\ ticksLeft > 0

\* C16: phase_offset is 0 in every reachable state, so the phased step of
\* every tick is its step, the top 8 bits of the advanced accumulator, and
\* a tick in the noise branch writes the doubled noise entry at that index.
\* (SpecWave)
C16_PhaseOffsetZero ==
    /\ phase_offset = 0
    /\ (NTicks > 0) =>
           /\ obs.step = syncPhaseAcc \div 256
           /\ obs.phased = obs.step
           /\ (obs.wt > 4) => (OCR1A = (noise(syncPhaseAcc \div 256) * 2) % 256)

\* C16 witness: the control loop has published the noise id and a tick in
\* the noise branch has read the table at a non-zero step.
C16_Witness ==
    /\ NTicks > 0
    /\ obs.wt = 5
    /\ current_wavetable = 5
    /\ obs.step # 0
    /\ obs.phased = obs.step
    /\ OCR1A = (noise(obs.step) * 2) % 256

\* the smallest and the largest of the last four raw select values
MinSample == CHOOSE m \in {samples[i] : i \in 1..Len(samples)} :
                 \A i \in 1..Len(samples) : m <= samples[i]
MaxSample == CHOOSE m \in {samples[i] : i \in 1..Len(samples)} :
                 \A i \in 1..Len(samples) : m >= samples[i]

\* C17: current_wavetable is 0 as long as fewer than four passes have
\* stored a sample; it changes only in the publish of a pass that filled
\* the buffer, and every value published lies between the smallest and the
\* largest of the four samples averaged for it.  (SpecWave)
C17_PublishedWithinSamples ==
    [][ /\ (Len(samples) < 4) => (current_wavetable = 0)
        /\ (Len(samples') < 4) => (current_wavetable' = 0)
        /\ (current_wavetable' # current_wavetable) =>
               /\ pc = "L118"
               /\ buff_step = 4
               /\ Len(samples) = 4
        /\ (pc = "L118" /\ pc' = "L127" /\ buff_step = 4) =>
               /\ Len(samples) = 4
               /\ \A i \in 1..4 : samples[i] = buffered_vals[i - 1]
               /\ current_wavetable' >= MinSample
               /\ current_wavetable' <= MaxSample ]_vars

\* C17 witness: a pass has published a value strictly between the smallest
\* and the largest of the four samples it averaged.
C17_Witness ==
    /\ pc = "L127"
    /\ buff_step = 0
    /\ Len(samples) = 4
    /\ \A i \in 1..4 : samples[i] = buffered_vals[i - 1]
    /\ current_wavetable > MinSample
    /\ current_wavetable < MaxSample

====
